---- MODULE Spec2Model ----
(***************************************************************************)
(* The energy ingestion engine.  Write path:                               *)
(*   TelemetryService.ingest and the validation of the payload DTOs        *)
(*   IngestionBufferService  (src/telemetry/ingestion-buffer.service.ts)   *)
(*   VehicleTelemetryRepository / MeterTelemetryRepository.ingestBatch     *)
(*   the history and current-status tables of the PostgreSQL schema.       *)
(* Read path: the monthly partitions of the history tables, the reads of   *)
(* AnalyticsService and the materialized view mv_vehicle_performance_24h.  *)
(*                                                                         *)
(* A record is [id, dev, ts]: id is the identity of the DTO object that    *)
(* was pushed and stands for its value fields (soc, kwh, ...), dev is the  *)
(* device identifier, ts the device-reported timestamp.                    *)
(* Every `await` of the repository is one step; the synchronous code       *)
(* between two awaits is executed atomically (single-threaded event loop). *)
(***************************************************************************)
EXTENDS Integers, Sequences, FiniteSets, TLC

\* ---------------------------------------------------------------- bounds
MaxPush == 3        \* pushes accepted in one behaviour (both classes)
MaxTs == 2          \* device timestamps are 1..MaxTs
MaxInFlight == 2    \* flushes awaiting the repository at the same time
MaxFlush == 2       \* flushes started in one behaviour
MaxFail == 1        \* rejections injected into awaited database calls
MaxFlushSize == 2   \* BUFFER_FLUSH_SIZE is configured in 1..MaxFlushSize

IdMaxLen == 64      \* VARCHAR(64) of the identifier columns
SocMax == 100       \* @Max(100) on soc

Classes == {"vehicle", "meter"}
Devices == {"d1", "d2"}
Timestamps == 1..MaxTs

VARIABLES
    FLUSH_SIZE,  \* readonly, parsed from BUFFER_FLUSH_SIZE by the constructor
    buffer,      \* vehicleBuffer / meterBuffer
    flushTimer,  \* TRUE iff the interval timer is set
    phase,       \* "constructed", "running", "destroying"
    tx,          \* the flushes that await ingestBatch, oldest first
    hist,        \* committed rows of *_telemetry_history
    cur,         \* committed rows of *_current_status
    pushed,      \* history variable: records accepted by push, in order
    started,     \* history variable: number of flushes started
    fails,       \* number of injected rejections so far
    ackLost,     \* history variable: an ingestBatch rejected after commit
    run,         \* history variable: the current run of consecutive pushes
    drainFailed, \* history variable: records whose drain flush was rejected
    unhandled,   \* TRUE iff a rejection has escaped flushVehicles / flushMeters
    call,        \* the last call of TelemetryService.ingest: dto and outcome
    ingestFailed,     \* history variable: an ingestBatch call has rejected
    pushedAtDestroy,  \* history variable: records pushed per class when
                      \* onModuleDestroy was called
    link,        \* rows of vehicle_meter_link: the meter of each vehicle
    now,         \* NOW() of the database
    mv,          \* mv_vehicle_performance_24h: populated or not, and its rows
    reply        \* the last read (or routed insert) and its outcome

\* what the write path never touches
readVars == <<link, now, mv, reply>>

vars == <<FLUSH_SIZE, buffer, flushTimer, phase, tx, hist, cur, pushed, started, fails,
          ackLost, run, drainFailed, unhandled, call, ingestFailed, pushedAtDestroy,
          readVars>>

\* ------------------------------------------------------------- data model
NoRow == [last_seen_at |-> 0, rec |-> 0]
NoWrites == [d \in Devices |-> NoRow]

FreshRun == [ids |-> <<>>, flushes |-> <<>>, tainted |-> FALSE]

Ids(seq) == [i \in 1..Len(seq) |-> seq[i].id]
DevsOf(seq) == {seq[i].dev : i \in 1..Len(seq)}
Count(seq, id) == Cardinality({i \in 1..Len(seq) : seq[i].id = id})
Remove(seq, i) == [j \in 1..(Len(seq) - 1) |-> IF j < i THEN seq[j] ELSE seq[j + 1]]

NumPushed == Len(pushed["vehicle"]) + Len(pushed["meter"])

\* getBufferDepth(): { vehicles, meters }
getBufferDepth == [c \in Classes |-> Len(buffer[c])]

\* --------------------------------------------------- the two SQL statements
\* One row of the current table built from a record (the VALUES tuple).
RowOf(r) == [last_seen_at |-> r.ts, rec |-> r.id]

\* mutation of Newer: the guard written with <= instead of <
NewerOrEqual(row, r) == row.last_seen_at <= r.ts

\* mutation of Newer: the conflict clause without its WHERE guard
NewerNoGuard(row, r) == TRUE

\* Staleness guard of the conflict clause:
\*   WHERE <table>.last_seen_at < EXCLUDED.last_seen_at
Newer(row, r) == row.last_seen_at < r.ts

\* INSERT INTO <class>_current_status ... VALUES (...), ... ON CONFLICT
\* (<id>) DO UPDATE SET ... WHERE <guard>, executed row by row in VALUES
\* order.  touched is the set of keys this command has inserted or updated:
\* PostgreSQL raises a cardinality violation ("ON CONFLICT DO UPDATE command
\* cannot affect row a second time") when a proposed row conflicts with a
\* row version created by the same command; a row that was only locked
\* because the guard was false can be hit again.
RECURSIVE UpsertRows(_, _, _)
UpsertRows(rows, table, touched) ==
    IF rows = <<>> THEN [ok |-> TRUE, table |-> table]
    ELSE LET r == Head(rows) IN
         IF r.dev \in touched THEN [ok |-> FALSE, table |-> table]
         ELSE IF table[r.dev] = NoRow
              THEN UpsertRows(Tail(rows), [table EXCEPT ![r.dev] = RowOf(r)],
                              touched \cup {r.dev})
         ELSE IF Newer(table[r.dev], r)
              THEN UpsertRows(Tail(rows), [table EXCEPT ![r.dev] = RowOf(r)],
                              touched \cup {r.dev})
         ELSE UpsertRows(Tail(rows), table, touched)

Upsert(rows, table) == UpsertRows(rows, table, {})

\* mutation of InsertHistory: a reading already stored is skipped
InsertHistoryIdempotent(rows, table) ==
    table \o SelectSeq(rows, LAMBDA r : \A k \in DOMAIN table :
                                  ~(table[k].dev = r.dev /\ table[k].ts = r.ts))

\* INSERT INTO <class>_telemetry_history ... VALUES (...), ...: one row per
\* record, appended; no conflict clause.
InsertHistory(rows, table) == table \o rows

\* mutation of LockedByOthers: one table of current rows for both classes, so
\* the row locks of a vehicle flush hold up a meter flush
LockedByAnyClass(i) == UNION {tx[o].locks : o \in {x \in DOMAIN tx : x # i}}

\* keys whose row locks are held by the other open transactions of a class
LockedByOthers(i) ==
    UNION {tx[o].locks : o \in {x \in DOMAIN tx : x # i /\ tx[x].class = tx[i].class}}

\* ------------------------------------------------- IngestionBufferService
\* mutation of SwapBatch: the batch misses the oldest record of the buffer
SwapBatchTail(buf) == Tail(buf)

\* The batch taken by the swap (const batch = this.xBuffer).
SwapBatch(buf) == buf
\* mutation of SwapRest: the swap leaves what exceeds FLUSH_SIZE records
SwapRestChunked(buf) == SubSeq(buf, FLUSH_SIZE + 1, Len(buf))

\* mutation of SwapRest: the buffer is not replaced by an empty one
SwapRestKept(buf) == buf

\* The buffer left by the swap (this.xBuffer = []).
SwapRest(buf) == <<>>

\* a flush right after its swap: ingestBatch has created the query runner
\* and awaits connect()
NewTx(c, batch, trig, n) ==
    [pc |-> "connect", class |-> c, batch |-> batch, trigger |-> trig,
     pend |-> FALSE, writes |-> NoWrites, locks |-> {}, committed |-> FALSE,
     failed |-> FALSE, err |-> "none", swapAt |-> n]

\* mutation of ingestBatch: no guard on an empty list
ingestBatchUnguarded(t, c, records, trig, n) == Append(t, NewTx(c, records, trig, n))

\* ingestBatch(records) up to its first await: it returns at once on an empty
\* list; otherwise it creates the query runner and awaits connect().
ingestBatch(t, c, records, trig, n) ==
    IF Len(records) = 0 THEN t
    ELSE Append(t, NewTx(c, records, trig, n))

\* mutation of FlushTx: a flush of a class is skipped while another flush of
\* the class is in flight
FlushTxGuarded(t, c, buf, trig, n) ==
    IF Len(buf) = 0 \/ \E i \in DOMAIN t : t[i].class = c THEN t
    ELSE ingestBatch(t, c, SwapBatch(buf), trig, n)

\* flushVehicles / flushMeters up to the first await: the guard on an empty
\* buffer, the swap, and the call of ingestBatch.  t is the list of flushes
\* in flight, buf the buffer of class c at the call, n the number of records
\* of c pushed so far.
FlushTx(t, c, buf, trig, n) ==
    IF Len(buf) = 0 THEN t
    ELSE ingestBatch(t, c, SwapBatch(buf), trig, n)
FlushBuf(buf) == IF Len(buf) = 0 THEN buf ELSE SwapRest(buf)

\* mutation of Requeue: the failed batch is appended instead of prepended
RequeueAppended(batch, buf) == buf \o batch

\* mutation of Requeue: the catch branch drops the failed batch
RequeueDropped(batch, buf) == buf

\* catch branch of flushVehicles / flushMeters: batch.concat(this.xBuffer)
Requeue(batch, buf) == batch \o buf

\* mutation of SizeTrigger: > instead of >=
SizeTriggerStrict(buf) == Len(buf) > FLUSH_SIZE

\* the size trigger of pushVehicle / pushMeter
SizeTrigger(buf) == Len(buf) >= FLUSH_SIZE

\* history variable run: consecutive pushes of a class that started on an
\* empty buffer, with the batches of the size-triggered flushes they started
RunAfterPush(c, r, trig) ==
    IF run[c].tainted
    THEN IF trig THEN FreshRun ELSE run[c]
    ELSE [run[c] EXCEPT !.ids = Append(@, r.id),
                        !.flushes = IF trig
                                    THEN Append(@, Ids(Append(buffer[c], r)))
                                    ELSE @]
RunAfterFlush(c) == IF Len(buffer[c]) = 0 THEN run[c] ELSE FreshRun
RunAfterRequeue == [FreshRun EXCEPT !.tainted = TRUE]

\* onModuleInit(): startFlushTimer()
onModuleInit ==
    /\ phase = "constructed"
    /\ phase' = "running"
    /\ flushTimer' = TRUE
    /\ UNCHANGED <<readVars, call, FLUSH_SIZE, buffer, tx, hist, cur, pushed, started,
                   fails,
                   ackLost, ingestFailed, pushedAtDestroy, drainFailed, unhandled, run>>

\* pushVehicle(record) / pushMeter(record)
Push(c, d, t) ==
    /\ phase \in {"running", "destroying"}
    /\ NumPushed < MaxPush
    /\ LET r == [id |-> Len(pushed[c]) + 1, dev |-> d, ts |-> t]
           buf == Append(buffer[c], r)
       IN /\ pushed' = [pushed EXCEPT ![c] = Append(@, r)]
          /\ IF SizeTrigger(buf)
             THEN /\ Len(tx) < MaxInFlight
                  /\ started < MaxFlush
                  /\ tx' = FlushTx(tx, c, buf, "size", Len(pushed[c]) + 1)
                  /\ buffer' = [buffer EXCEPT ![c] = FlushBuf(buf)]
                  /\ started' = started + 1
             ELSE /\ buffer' = [buffer EXCEPT ![c] = buf]
                  /\ UNCHANGED <<tx, started>>
          /\ run' = [run EXCEPT ![c] = RunAfterPush(c, r, SizeTrigger(buf))]
    /\ UNCHANGED <<readVars, FLUSH_SIZE, flushTimer, phase, pushedAtDestroy, hist, cur,
                   fails,
                   ackLost, ingestFailed, drainFailed, unhandled>>

\* called on the buffer service directly, not through TelemetryService.ingest
pushVehicle(d, t) == Push("vehicle", d, t) /\ UNCHANGED call
pushMeter(d, t) == Push("meter", d, t) /\ UNCHANGED call

\* flushAll(): Promise.all([flushVehicles(), flushMeters()]); both calls run
\* to their first await before anything else does.
flushAll(trig) ==
    LET n == Cardinality({c \in Classes : buffer[c] # <<>>}) IN
    /\ Len(tx) + n <= MaxInFlight
    /\ started + n <= MaxFlush
    /\ started' = started + n
    /\ tx' = FlushTx(FlushTx(tx, "vehicle", buffer["vehicle"], trig,
                             Len(pushed["vehicle"])),
                     "meter", buffer["meter"], trig, Len(pushed["meter"]))
    /\ buffer' = [c \in Classes |-> FlushBuf(buffer[c])]
    /\ run' = [c \in Classes |-> RunAfterFlush(c)]

\* the setInterval callback of startFlushTimer
Tick ==
    /\ flushTimer
    /\ \E c \in Classes : buffer[c] # <<>>     \* on empty buffers: a no-op
    /\ flushAll("timer")
    /\ UNCHANGED <<readVars, call, FLUSH_SIZE, flushTimer, phase, pushedAtDestroy,
                   hist, cur, pushed, fails,
                   ackLost, ingestFailed, drainFailed, unhandled>>

\* the setInterval callback for as long as the service runs: the flushes it
\* starts are not counted, so their number has no bound
TickForever ==
    /\ flushTimer
    /\ \E c \in Classes : buffer[c] # <<>>
    /\ Len(tx) + Cardinality({c \in Classes : buffer[c] # <<>>}) <= MaxInFlight
    /\ tx' = FlushTx(FlushTx(tx, "vehicle", buffer["vehicle"], "timer",
                             Len(pushed["vehicle"])),
                     "meter", buffer["meter"], "timer", Len(pushed["meter"]))
    /\ buffer' = [c \in Classes |-> FlushBuf(buffer[c])]
    /\ run' = [c \in Classes |-> RunAfterFlush(c)]
    /\ UNCHANGED <<readVars, call, FLUSH_SIZE, flushTimer, phase, pushedAtDestroy,
                   hist, cur, pushed,
                   started, fails, ackLost, ingestFailed, drainFailed, unhandled>>

\* mutation of onModuleDestroy: the timer is not stopped
onModuleDestroyTimerLeft ==
    /\ phase = "running"
    /\ phase' = "destroying"
    /\ flushTimer' = flushTimer
    /\ flushAll("drain")
    /\ pushedAtDestroy' = [c \in Classes |-> Len(pushed[c])]
    /\ UNCHANGED <<readVars, call, FLUSH_SIZE, hist, cur, pushed, fails, ackLost,
                   ingestFailed,
                   drainFailed, unhandled>>

\* onModuleDestroy(): stopFlushTimer(), then flushAll()
onModuleDestroy ==
    /\ phase = "running"
    /\ phase' = "destroying"
    /\ flushTimer' = FALSE
    /\ flushAll("drain")
    /\ pushedAtDestroy' = [c \in Classes |-> Len(pushed[c])]
    /\ UNCHANGED <<readVars, call, FLUSH_SIZE, hist, cur, pushed, fails, ackLost,
                   ingestFailed,
                   drainFailed, unhandled>>

\* ------------------------------------------------------------ ingestBatch
\* mutation of Catches: the flush has no catch clause
CatchesNothing == FALSE

\* try { await repo.ingestBatch(batch) } catch (error) { ... }: the catch
\* clause has no condition, it takes every rejection of ingestBatch
Catches == TRUE

\* The i-th flush settles: it leaves the list and, when ingestBatch
\* rejected, the catch branch re-enqueues the batch.
Settle(i, rejected) ==
    /\ tx' = Remove(tx, i)
    /\ ingestFailed' = (ingestFailed \/ rejected)
    /\ IF rejected /\ Catches
       THEN /\ buffer' = [buffer EXCEPT ![tx[i].class] = Requeue(tx[i].batch, @)]
            /\ run' = [run EXCEPT ![tx[i].class] = RunAfterRequeue]
            /\ ackLost' = (ackLost \/ tx[i].committed)
            /\ drainFailed' = [drainFailed EXCEPT ![tx[i].class] =
                                  IF tx[i].trigger = "drain"
                                  THEN @ \cup {tx[i].batch[k].id : k \in DOMAIN tx[i].batch}
                                  ELSE @]
            /\ UNCHANGED unhandled
       ELSE /\ unhandled' = (unhandled \/ rejected)
            /\ UNCHANGED <<buffer, run, ackLost, drainFailed>>

Inject == /\ fails < MaxFail
          /\ fails' = fails + 1

\* await queryRunner.connect()  (outside the try block)
Connect(i) ==
    /\ i \in DOMAIN tx
    /\ tx[i].pc = "connect"
    /\ \/ /\ tx' = [tx EXCEPT ![i].pc = "start"]
          /\ UNCHANGED <<buffer, run, ackLost, ingestFailed, drainFailed, unhandled, fails>>
       \/ /\ Inject
          /\ Settle(i, TRUE)
    /\ UNCHANGED <<readVars, call, FLUSH_SIZE, flushTimer, phase, pushedAtDestroy,
                   hist, cur, pushed, started>>

\* await queryRunner.startTransaction()  (outside the try block)
StartTransaction(i) ==
    /\ i \in DOMAIN tx
    /\ tx[i].pc = "start"
    /\ \/ /\ tx' = [tx EXCEPT ![i].pc = "insert"]
          /\ UNCHANGED <<buffer, run, ackLost, ingestFailed, drainFailed, unhandled, fails>>
       \/ /\ Inject
          /\ Settle(i, TRUE)
    /\ UNCHANGED <<readVars, call, FLUSH_SIZE, flushTimer, phase, pushedAtDestroy,
                   hist, cur, pushed, started>>

\* the length of an identifier (see IdOf); every identifier that is not one
\* of the devices is one character longer than the column
IdLen(d) == IF d = "d1" THEN 2 ELSE IF d = "d2" THEN IdMaxLen ELSE IdMaxLen + 1

\* every identifier of the batch fits the VARCHAR(64) column; a longer one
\* makes the statement fail (value too long for type character varying(64))
Fits(batch) == \A k \in DOMAIN batch : IdLen(batch[k].dev) <= IdMaxLen

\* 1. the multi-row INSERT into the history table, inside the transaction
InsertStmt(i) ==
    /\ i \in DOMAIN tx
    /\ tx[i].pc = "insert"
    /\ \/ /\ Fits(tx[i].batch)
          /\ tx' = [tx EXCEPT ![i].pc = "upsert", ![i].pend = TRUE]
          /\ UNCHANGED fails
       \/ /\ ~Fits(tx[i].batch)
          /\ tx' = [tx EXCEPT ![i].pc = "rollback", ![i].err = "too long"]
          /\ UNCHANGED fails
       \/ /\ Inject
          /\ tx' = [tx EXCEPT ![i].pc = "rollback", ![i].err = "db"]
    /\ UNCHANGED <<readVars, call, FLUSH_SIZE, buffer, flushTimer, phase,
                   pushedAtDestroy, hist, cur, pushed,
                   started, ackLost, ingestFailed, drainFailed, unhandled, run>>

\* 2. the multi-row upsert into the current table, inside the transaction.
\* It waits for the row locks of the other open transactions of the class
\* and keeps its own until commit or rollback.
UpsertStmt(i) ==
    /\ i \in DOMAIN tx
    /\ tx[i].pc = "upsert"
    /\ DevsOf(tx[i].batch) \cap LockedByOthers(i) = {}
    /\ LET c == tx[i].class
           res == Upsert(tx[i].batch, cur[c]) IN
       \/ /\ res.ok
          /\ tx' = [tx EXCEPT ![i].pc = "commit",
                              ![i].locks = DevsOf(tx[i].batch),
                              ![i].writes =
                                  [d \in Devices |->
                                      IF res.table[d] # cur[c][d]
                                      THEN res.table[d] ELSE NoRow]]
          /\ UNCHANGED fails
       \/ /\ ~res.ok
          /\ tx' = [tx EXCEPT ![i].pc = "rollback",
                              ![i].locks = DevsOf(tx[i].batch),
                              ![i].err = "cardinality"]
          /\ UNCHANGED fails
       \/ /\ Inject
          /\ tx' = [tx EXCEPT ![i].pc = "rollback",
                              ![i].locks = DevsOf(tx[i].batch),
                              ![i].err = "db"]
    /\ UNCHANGED <<readVars, call, FLUSH_SIZE, buffer, flushTimer, phase,
                   pushedAtDestroy, hist, cur, pushed,
                   started, ackLost, ingestFailed, drainFailed, unhandled, run>>

\* mutation of CommitCur: the upsert is not part of what the commit publishes
CommitCurPartial(i) == cur[tx[i].class]

\* mutation of CommitHist: the history rows are not part of what the commit
\* publishes
CommitHistNothing(i) == hist[tx[i].class]

\* the tables a reader sees once the transaction of flush i has committed
CommitHist(i) == IF tx[i].pend
                 THEN InsertHistory(tx[i].batch, hist[tx[i].class])
                 ELSE hist[tx[i].class]
CommitCur(i) == [d \in Devices |-> IF tx[i].writes[d] # NoRow
                                   THEN tx[i].writes[d]
                                   ELSE cur[tx[i].class][d]]

\* await queryRunner.commitTransaction()
Commit(i) ==
    /\ i \in DOMAIN tx
    /\ tx[i].pc = "commit"
    /\ \/ /\ hist' = [hist EXCEPT ![tx[i].class] = CommitHist(i)]
          /\ cur' = [cur EXCEPT ![tx[i].class] = CommitCur(i)]
          /\ tx' = [tx EXCEPT ![i].pc = "release", ![i].committed = TRUE,
                              ![i].pend = FALSE, ![i].writes = NoWrites,
                              ![i].locks = {}]
          /\ UNCHANGED fails
       \/ /\ Inject
          /\ tx' = [tx EXCEPT ![i].pc = "rollback", ![i].err = "db"]
          /\ UNCHANGED <<hist, cur>>
    /\ UNCHANGED <<readVars, call, FLUSH_SIZE, buffer, flushTimer, phase,
                   pushedAtDestroy, pushed, started,
                   ackLost, ingestFailed, drainFailed, unhandled, run>>

\* mutation of Rollback: the rows written before the failure stay
RollbackKeepsWrites(i) ==
    /\ i \in DOMAIN tx
    /\ tx[i].pc = "rollback"
    /\ tx' = [tx EXCEPT ![i].pc = "release", ![i].failed = TRUE,
                        ![i].pend = FALSE, ![i].writes = NoWrites,
                        ![i].locks = {}]
    /\ hist' = [hist EXCEPT ![tx[i].class] = CommitHist(i)]
    /\ UNCHANGED <<readVars, call, FLUSH_SIZE, buffer, flushTimer, phase,
                   pushedAtDestroy, cur, pushed,
                   started, ackLost, ingestFailed, drainFailed, unhandled, run, fails>>

\* catch: await queryRunner.rollbackTransaction(); the pending writes are
\* discarded whether the call resolves or rejects, and the error is thrown.
Rollback(i) ==
    /\ i \in DOMAIN tx
    /\ tx[i].pc = "rollback"
    /\ tx' = [tx EXCEPT ![i].pc = "release", ![i].failed = TRUE,
                        ![i].pend = FALSE, ![i].writes = NoWrites,
                        ![i].locks = {}]
    /\ \/ UNCHANGED fails
       \/ Inject
    /\ UNCHANGED <<readVars, call, FLUSH_SIZE, buffer, flushTimer, phase,
                   pushedAtDestroy, hist, cur, pushed,
                   started, ackLost, ingestFailed, drainFailed, unhandled, run>>

\* finally: await queryRunner.release(); then ingestBatch settles and the
\* awaiting flush continues.
Release(i) ==
    /\ i \in DOMAIN tx
    /\ tx[i].pc = "release"
    /\ \/ /\ Settle(i, tx[i].failed)
          /\ UNCHANGED fails
       \/ /\ Inject
          /\ Settle(i, TRUE)
    /\ UNCHANGED <<readVars, call, FLUSH_SIZE, flushTimer, phase, pushedAtDestroy,
                   hist, cur, pushed, started>>

\* -------------------------------------------------------- TelemetryService

\* A JSON value of a payload field: t is its type; a string has its text s
\* and its length len; a number has its value v; an ISO 8601 string that
\* names the instant k has s = "iso" and v = k.
Str(s, n) == [t |-> "string", s |-> s, len |-> n, v |-> 0]
Num(x) == [t |-> "number", s |-> "", len |-> 0, v |-> x]
Absent == [t |-> "absent", s |-> "", len |-> 0, v |-> 0]
Iso(k) == [t |-> "string", s |-> "iso", len |-> 20, v |-> k]
\* the identifier of a device as a JSON string: d1 is 2 characters long, d2
\* is as long as the identifier columns allow
IdOf(d) == Str(d, IF d = "d1" THEN 2 ELSE IdMaxLen)

NoPayload ==
    [vehicleId |-> Absent, soc |-> Absent, kwhDeliveredDc |-> Absent,
     batteryTemp |-> Absent, meterId |-> Absent, kwhConsumedAc |-> Absent,
     voltage |-> Absent, timestamp |-> Absent]
VehiclePayload(id, ts) ==
    [NoPayload EXCEPT !.vehicleId = id, !.soc = Num(50),
                      !.kwhDeliveredDc = Num(3), !.batteryTemp = Num(0 - 5),
                      !.timestamp = ts]
MeterPayload(id, ts) ==
    [NoPayload EXCEPT !.meterId = id, !.kwhConsumedAc = Num(4),
                      !.voltage = Num(230), !.timestamp = ts]

\* the payloads the requests are drawn from: a well-formed payload with one
\* field varied, or with one field more than the DTO of its variant declares
IdValues == {IdOf(d) : d \in Devices}
              \cup {Str("dX", IdMaxLen + 1), Str("", 0), Num(7), Absent}
TsValues == {Iso(k) : k \in Timestamps} \cup {Str("yesterday", 9), Num(1)}
VehiclePayloads ==
    {VehiclePayload(id, Iso(1)) : id \in IdValues}
    \cup {VehiclePayload(IdOf("d1"), ts) : ts \in TsValues}
    \cup {[VehiclePayload(IdOf("d1"), Iso(1)) EXCEPT !.soc = x] :
             x \in {Num(0 - 1), Num(0), Num(SocMax), Num(SocMax + 1), Str("50", 2)}}
    \cup {[VehiclePayload(IdOf("d1"), Iso(1)) EXCEPT !.kwhDeliveredDc = x] :
             x \in {Num(0 - 1), Num(0), Str("3", 1)}}
    \cup {[VehiclePayload(IdOf("d1"), Iso(1)) EXCEPT !.batteryTemp = x] :
             x \in {Str("hot", 3), Absent}}
    \cup {[VehiclePayload(IdOf("d1"), Iso(1)) EXCEPT !.voltage = Num(230)]}
MeterPayloads ==
    {MeterPayload(id, Iso(1)) : id \in IdValues}
    \cup {MeterPayload(IdOf("d1"), ts) : ts \in TsValues}
    \cup {[MeterPayload(IdOf("d1"), Iso(1)) EXCEPT !.kwhConsumedAc = x] :
             x \in {Num(0 - 1), Num(0), Str("4", 1)}}
    \cup {[MeterPayload(IdOf("d1"), Iso(1)) EXCEPT !.voltage = x] :
             x \in {Num(0 - 1), Num(0), Absent}}
    \cup {[MeterPayload(IdOf("d1"), Iso(1)) EXCEPT !.soc = Num(50)]}
\* the requests: "OTHER" stands for every type that is neither tag
Messages ==
    {[type |-> ty, payload |-> p] :
        ty \in {"VEHICLE", "METER"}, p \in VehiclePayloads \cup MeterPayloads}
    \cup {[type |-> "OTHER", payload |-> p] :
             p \in {VehiclePayload(IdOf("d1"), Iso(1)), MeterPayload(IdOf("d1"), Iso(1))}}
\* the well-formed requests of the devices
DeviceMessages ==
    {[type |-> "VEHICLE", payload |-> VehiclePayload(IdOf(d), Iso(k))] :
        d \in Devices, k \in Timestamps}
    \cup {[type |-> "METER", payload |-> MeterPayload(IdOf(d), Iso(k))] :
             d \in Devices, k \in Timestamps}

NoCall == [dto |-> [type |-> "OTHER", payload |-> NoPayload], result |-> "none"]

\* the class-validator decorators of the payload DTOs
IsString(x) == x.t = "string"
IsNotEmpty(x) == x.t # "absent" /\ ~(x.t = "string" /\ x.len = 0)
IsNumber(x) == x.t = "number"
Min(x, m) == x.t = "number" /\ x.v >= m
Max(x, m) == x.t = "number" /\ x.v <= m
IsDateString(x) == x.t = "string" /\ x.s = "iso"

\* validate(plainToInstance(VehiclePayloadDto, payload)): the properties with
\* a failed constraint
validateVehicle(p) ==
    {f \in {"vehicleId", "soc", "kwhDeliveredDc", "batteryTemp", "timestamp"} :
        \/ f = "vehicleId" /\ ~(IsString(p.vehicleId) /\ IsNotEmpty(p.vehicleId))
        \/ f = "soc" /\ ~(IsNumber(p.soc) /\ Min(p.soc, 0) /\ Max(p.soc, SocMax))
        \/ f = "kwhDeliveredDc"
             /\ ~(IsNumber(p.kwhDeliveredDc) /\ Min(p.kwhDeliveredDc, 0))
        \/ f = "batteryTemp" /\ ~IsNumber(p.batteryTemp)
        \/ f = "timestamp" /\ ~IsDateString(p.timestamp)}
\* validate(plainToInstance(MeterPayloadDto, payload))
validateMeter(p) ==
    {f \in {"meterId", "kwhConsumedAc", "voltage", "timestamp"} :
        \/ f = "meterId" /\ ~(IsString(p.meterId) /\ IsNotEmpty(p.meterId))
        \/ f = "kwhConsumedAc"
             /\ ~(IsNumber(p.kwhConsumedAc) /\ Min(p.kwhConsumedAc, 0))
        \/ f = "voltage" /\ ~(IsNumber(p.voltage) /\ Min(p.voltage, 0))
        \/ f = "timestamp" /\ ~IsDateString(p.timestamp)}

\* throw new BadRequestException(...): nothing but the outcome changes
BadRequest(m) ==
    /\ call' = [dto |-> m, result |-> "BadRequest"]
    /\ UNCHANGED <<readVars, FLUSH_SIZE, buffer, flushTimer, phase, pushedAtDestroy,
                   tx, hist, cur,
                   pushed, started, fails, ackLost, ingestFailed, run, drainFailed, unhandled>>
\* mutation of Accepted: the outcome waits for the flush the push has started
AcceptedAfterFlush(m) ==
    call' = [dto |-> m, result |-> IF tx' = tx THEN "accepted" ELSE "pending"]

\* return { accepted: true }
Accepted(m) == call' = [dto |-> m, result |-> "accepted"]

\* mutation of ingestVehicle: the record goes to the buffer of the other class
ingestVehicleMisrouted(m) ==
    IF validateVehicle(m.payload) # {}
    THEN BadRequest(m)
    ELSE /\ Push("meter", m.payload.vehicleId.s, m.payload.timestamp.v)
         /\ Accepted(m)

\* ingestVehicle(payload): validation, then buffer.pushVehicle(vehicleDto).
\* The record keeps the identifier and the instant of the payload.
ingestVehicle(m) ==
    IF validateVehicle(m.payload) # {}
    THEN BadRequest(m)
    ELSE /\ Push("vehicle", m.payload.vehicleId.s, m.payload.timestamp.v)
         /\ Accepted(m)

\* ingestMeter(payload): validation, then buffer.pushMeter(meterDto)
ingestMeter(m) ==
    IF validateMeter(m.payload) # {}
    THEN BadRequest(m)
    ELSE /\ Push("meter", m.payload.meterId.s, m.payload.timestamp.v)
         /\ Accepted(m)

\* ingest(dto): the switch on dto.type
ingest(m) ==
    IF m.type = "VEHICLE" THEN ingestVehicle(m)
    ELSE IF m.type = "METER" THEN ingestMeter(m)
    ELSE BadRequest(m)

\* ------------------------------------------------ partitions of the history
MaxMonths == 14     \* recorded_at lies in the MaxMonths months from 2025-12-01
MaxReads == 1       \* reads (or routed inserts) served in one behaviour

\* An instant of the read side and of the partition bounds is a number of
\* half days since 2025-12-01 00:00 (time zone of the database session).
IsLeap(y) == (y % 4 = 0 /\ y % 100 # 0) \/ y % 400 = 0
DaysIn(y, m) ==
    IF m \in {4, 6, 9, 11} THEN 30
    ELSE IF m = 2 THEN (IF IsLeap(y) THEN 29 ELSE 28)
    ELSE 31
\* days from 2025-12-01 to the first of month m of year y
RECURSIVE DaysBefore(_, _)
DaysBefore(y, m) ==
    IF y = 2025 /\ m = 12 THEN 0
    ELSE IF m = 1 THEN DaysBefore(y - 1, 12) + DaysIn(y - 1, 12)
    ELSE DaysBefore(y, m - 1) + DaysIn(y, m - 1)
\* the literal 'y-m-d' read as a timestamp: midnight of that day
Date(y, m, d) == 2 * (DaysBefore(y, m) + (d - 1))
\* the values of recorded_at that are inserted
RecordedAts ==
    0..(Date(2025 + ((11 + MaxMonths) \div 12), ((11 + MaxMonths) % 12) + 1, 1) - 1)

\* the partition of a history table that is named <table>_<y>_<m> is
\* <<y, m>>, <table>_default is Default
Default == <<0, 0>>

\* mutation of VehiclePartitions: the partition of June ends a day early
VehiclePartitionsGap ==
    <<[name |-> <<2026, 1>>, from |-> Date(2026, 1, 1), to |-> Date(2026, 2, 1)],
      [name |-> <<2026, 2>>, from |-> Date(2026, 2, 1), to |-> Date(2026, 3, 1)],
      [name |-> <<2026, 3>>, from |-> Date(2026, 3, 1), to |-> Date(2026, 4, 1)],
      [name |-> <<2026, 4>>, from |-> Date(2026, 4, 1), to |-> Date(2026, 5, 1)],
      [name |-> <<2026, 5>>, from |-> Date(2026, 5, 1), to |-> Date(2026, 6, 1)],
      [name |-> <<2026, 6>>, from |-> Date(2026, 6, 1), to |-> Date(2026, 6, 30)],
      [name |-> <<2026, 7>>, from |-> Date(2026, 7, 1), to |-> Date(2026, 8, 1)],
      [name |-> <<2026, 8>>, from |-> Date(2026, 8, 1), to |-> Date(2026, 9, 1)],
      [name |-> <<2026, 9>>, from |-> Date(2026, 9, 1), to |-> Date(2026, 10, 1)],
      [name |-> <<2026, 10>>, from |-> Date(2026, 10, 1), to |-> Date(2026, 11, 1)],
      [name |-> <<2026, 11>>, from |-> Date(2026, 11, 1), to |-> Date(2026, 12, 1)],
      [name |-> <<2026, 12>>, from |-> Date(2026, 12, 1), to |-> Date(2027, 1, 1)]>>

\* CREATE TABLE vehicle_telemetry_history_<y>_<m> PARTITION OF
\* vehicle_telemetry_history FOR VALUES FROM (...) TO (...)
VehiclePartitions ==
    <<[name |-> <<2026, 1>>, from |-> Date(2026, 1, 1), to |-> Date(2026, 2, 1)],
      [name |-> <<2026, 2>>, from |-> Date(2026, 2, 1), to |-> Date(2026, 3, 1)],
      [name |-> <<2026, 3>>, from |-> Date(2026, 3, 1), to |-> Date(2026, 4, 1)],
      [name |-> <<2026, 4>>, from |-> Date(2026, 4, 1), to |-> Date(2026, 5, 1)],
      [name |-> <<2026, 5>>, from |-> Date(2026, 5, 1), to |-> Date(2026, 6, 1)],
      [name |-> <<2026, 6>>, from |-> Date(2026, 6, 1), to |-> Date(2026, 7, 1)],
      [name |-> <<2026, 7>>, from |-> Date(2026, 7, 1), to |-> Date(2026, 8, 1)],
      [name |-> <<2026, 8>>, from |-> Date(2026, 8, 1), to |-> Date(2026, 9, 1)],
      [name |-> <<2026, 9>>, from |-> Date(2026, 9, 1), to |-> Date(2026, 10, 1)],
      [name |-> <<2026, 10>>, from |-> Date(2026, 10, 1), to |-> Date(2026, 11, 1)],
      [name |-> <<2026, 11>>, from |-> Date(2026, 11, 1), to |-> Date(2026, 12, 1)],
      [name |-> <<2026, 12>>, from |-> Date(2026, 12, 1), to |-> Date(2027, 1, 1)]>>
\* CREATE TABLE meter_telemetry_history_<y>_<m> PARTITION OF
\* meter_telemetry_history FOR VALUES FROM (...) TO (...)
MeterPartitions ==
    <<[name |-> <<2026, 1>>, from |-> Date(2026, 1, 1), to |-> Date(2026, 2, 1)],
      [name |-> <<2026, 2>>, from |-> Date(2026, 2, 1), to |-> Date(2026, 3, 1)],
      [name |-> <<2026, 3>>, from |-> Date(2026, 3, 1), to |-> Date(2026, 4, 1)],
      [name |-> <<2026, 4>>, from |-> Date(2026, 4, 1), to |-> Date(2026, 5, 1)],
      [name |-> <<2026, 5>>, from |-> Date(2026, 5, 1), to |-> Date(2026, 6, 1)],
      [name |-> <<2026, 6>>, from |-> Date(2026, 6, 1), to |-> Date(2026, 7, 1)],
      [name |-> <<2026, 7>>, from |-> Date(2026, 7, 1), to |-> Date(2026, 8, 1)],
      [name |-> <<2026, 8>>, from |-> Date(2026, 8, 1), to |-> Date(2026, 9, 1)],
      [name |-> <<2026, 9>>, from |-> Date(2026, 9, 1), to |-> Date(2026, 10, 1)],
      [name |-> <<2026, 10>>, from |-> Date(2026, 10, 1), to |-> Date(2026, 11, 1)],
      [name |-> <<2026, 11>>, from |-> Date(2026, 11, 1), to |-> Date(2026, 12, 1)],
      [name |-> <<2026, 12>>, from |-> Date(2026, 12, 1), to |-> Date(2027, 1, 1)]>>
Partitions(c) == IF c = "vehicle" THEN VehiclePartitions ELSE MeterPartitions

\* tuple routing of PostgreSQL: the partitions whose bounds FROM (inclusive)
\* TO (exclusive) hold the key, the default partition when there is none
Route(c, t) ==
    LET P == Partitions(c)
        hits == {k \in DOMAIN P : P[k].from <= t /\ t < P[k].to}
    IN IF hits = {} THEN {Default} ELSE {P[k].name : k \in hits}

\* the write path at rest
writeVars == <<FLUSH_SIZE, buffer, flushTimer, phase, pushedAtDestroy, tx, hist, cur,
               pushed, started,
               fails, ackLost, ingestFailed, run, drainFailed, unhandled, call>>

\* WITH NO DATA: the view is not populated before its first refresh
NoData == [populated |-> FALSE, rows |-> {}]
NoLink == [v \in Devices |-> "none"]
NoReply == [n |-> 0, op |-> "none", req |-> "none", res |-> "none"]

\* a row with recorded_at = t is inserted into the history table of class c
\* and stored in a partition
RouteRow(c, t) ==
    /\ reply.n < MaxReads
    /\ reply' = [n |-> reply.n + 1, op |-> "route",
                 req |-> [class |-> c, recorded_at |-> t], res |-> Route(c, t)]
    /\ UNCHANGED <<writeVars, link, now, mv>>

\* ------------------------------------------------------- AnalyticsService
MaxRows == 3        \* rows of the two history tables together (read side)
MaxKwh == 3         \* a vehicle reading delivers MaxKwh - 1 or MaxKwh kWh
DefaultLimit == 1000    \* limit?: number = 1000
MaxLimit == 10000       \* @Max(10000) on limit
Day == 2                \* INTERVAL '24 hours' in half days

\* The rows the reads run on also carry the energy column (kwh_delivered_dc
\* or kwh_consumed_ac, in kWh); id is the identity column of the table.
ReadTs == 1..Day
VehicleKwh == {MaxKwh - 1, MaxKwh}
MeterKwh == {0, 96}
ReadRows(c) ==
    [id : {0}, dev : Devices, ts : ReadTs,
     kwh : IF c = "vehicle" THEN VehicleKwh ELSE MeterKwh]
\* the tables of n rows, the identity column counting the inserts
Tables(c, n) ==
    {[k \in 1..n |-> [f[k] EXCEPT !.id = k]] : f \in [1..n -> ReadRows(c)]}
\* the current row of device d: its newest reading, the first one committed
\* among equals (staleness guard of the upsert)
CurOf(h, d) ==
    LET own == {k \in DOMAIN h : h[k].dev = d} IN
    IF own = {} THEN NoRow
    ELSE LET k == CHOOSE x \in own :
                      \A y \in own : h[y].ts < h[x].ts \/ (h[y].ts = h[x].ts /\ x <= y)
         IN RowOf(h[k])
\* link tables that satisfy the two REFERENCES constraints of the table
LinkTables(c) ==
    {l \in [Devices -> Devices \cup {"none"}] :
        \A v \in Devices :
            l[v] # "none" => (c["vehicle"][v] # NoRow /\ c["meter"][l[v]] # NoRow)}

\* GET /v1/analytics/history: the query string, every value a string or absent
Numeral(n) == [t |-> "string", s |-> "numeral", len |-> 1, v |-> n]
NaN == [t |-> "number", s |-> "NaN", len |-> 0, v |-> 0]
HistoryQuery(ty, id, from, to, limit) ==
    [deviceType |-> ty, deviceId |-> id, from |-> from, to |-> to, limit |-> limit]
\* the requests: a well-formed one with its window, or one other parameter,
\* varied
HistoryQueries ==
    {HistoryQuery("VEHICLE", IdOf("d1"), f, t, Absent) :
        f \in {Iso(1), Iso(2), Absent}, t \in {Iso(1), Iso(2), Iso(3), Absent}}
    \cup {HistoryQuery("VEHICLE", IdOf("d1"), Iso(1), Iso(3), l) :
             l \in {Numeral(0), Numeral(1), Numeral(MaxLimit),
                    Numeral(MaxLimit + 1), Str("abc", 3)}}
    \cup {HistoryQuery("VEHICLE", id, Iso(1), Iso(3), Absent) :
             id \in {IdOf("d2"), Str("dX", 2), Absent}}
    \cup {HistoryQuery(ty, IdOf("d1"), Iso(1), Iso(3), Absent) :
             ty \in {"METER", "OTHER"}}

\* Number(value) of @Type(() => Number)
Number(x) == IF x.s = "numeral" THEN Num(x.v) ELSE NaN
IsInt(x) == x.t = "number" /\ x.s # "NaN"
IsEnum(x) == x \in {"METER", "VEHICLE"}
\* plainToInstance(DeviceHistoryQueryDto, query): a limit that is absent
\* keeps the initializer of the property
DeviceHistoryQueryDto(q) ==
    [q EXCEPT !.limit = IF q.limit = Absent THEN Num(DefaultLimit) ELSE Number(q.limit)]
\* the properties of DeviceHistoryQueryDto with a failed constraint
validateHistoryQuery(dto) ==
    {f \in {"deviceType", "deviceId", "from", "to", "limit"} :
        \/ f = "deviceType" /\ ~IsEnum(dto.deviceType)
        \/ f = "deviceId" /\ ~IsString(dto.deviceId)
        \/ f = "from" /\ ~IsDateString(dto.from)
        \/ f = "to" /\ ~IsDateString(dto.to)
        \/ f = "limit" /\ ~(IsInt(dto.limit) /\ Min(dto.limit, 1)
                                /\ Max(dto.limit, MaxLimit))}

\* mutation of InWindow: the upper bound is inclusive
InWindowClosed(t, from, to) == from <= t /\ t <= to

\* recorded_at >= $2 AND recorded_at < $3
InWindow(t, from, to) == from <= t /\ t < to

\* ORDER BY recorded_at DESC: every order of the rows that is descending in
\* recorded_at (rows of equal recorded_at come in any order)
OrderByDesc(rows) ==
    {s \in [1..Cardinality(rows) -> rows] :
        /\ \A i, j \in DOMAIN s : i # j => s[i] # s[j]
        /\ \A i, j \in DOMAIN s : i < j => s[i].ts >= s[j].ts}
\* LIMIT n
Limit(s, n) == SubSeq(s, 1, IF n < Len(s) THEN n ELSE Len(s))
\* the SELECT of getDeviceHistory on the history table of class c
SelectHistory(c, dto) ==
    LET rows == {hist[c][k] : k \in
                    {x \in DOMAIN hist[c] :
                        /\ hist[c][x].dev = dto.deviceId.s
                        /\ InWindow(hist[c][x].ts, dto.from.v, dto.to.v)}}
    IN {Limit(s, dto.limit.v) : s \in OrderByDesc(rows)}

\* a read is served: reply is its request and its outcome
Reads(op, req, res) ==
    /\ reply.n < MaxReads
    /\ reply' = [n |-> reply.n + 1, op |-> op, req |-> req, res |-> res]
    /\ UNCHANGED <<writeVars, link, now, mv>>

\* GET /v1/analytics/history: the ValidationPipe, then getDeviceHistory
getDeviceHistory(q) ==
    LET dto == DeviceHistoryQueryDto(q) IN
    IF validateHistoryQuery(dto) # {}
    THEN Reads("history", q, [status |-> "BadRequest", rows |-> <<>>])
    ELSE \E rows \in SelectHistory(IF dto.deviceType = "VEHICLE"
                                    THEN "vehicle" ELSE "meter", dto) :
            Reads("history", q, [status |-> "ok", rows |-> rows])

\* mutation of FirstOrNull: no row is an error
FirstOrNotFound(rows) ==
    IF rows = <<>> THEN [status |-> "NotFound", row |-> NoRow]
    ELSE [status |-> "ok", row |-> rows[1]]

\* return rows[0] ?? null
FirstOrNull(rows) ==
    IF rows = <<>> THEN [status |-> "ok", row |-> "null"]
    ELSE [status |-> "ok", row |-> rows[1]]

\* getLiveStatus(deviceType, deviceId): every type that is not VEHICLE reads
\* the table of the meters
getLiveStatus(deviceType, deviceId) ==
    LET c == IF deviceType = "VEHICLE" THEN "vehicle" ELSE "meter"
        rows == IF deviceId \in Devices /\ cur[c][deviceId] # NoRow
                THEN <<cur[c][deviceId]>> ELSE <<>>
    IN Reads("live", [deviceType |-> deviceType, deviceId |-> deviceId],
             FirstOrNull(rows))

\* SUM(column) over a set of rows, NULL on no row, and COALESCE(..., 0)
RECURSIVE Sum(_)
Sum(rows) ==
    IF rows = {} THEN 0
    ELSE LET r == CHOOSE x \in rows : TRUE IN r.kwh + Sum(rows \ {r})
\* WHERE <id> = $n AND recorded_at >= NOW() - INTERVAL '24 hours'
Last24h(c, d) ==
    {hist[c][k] : k \in {x \in DOMAIN hist[c] :
                            hist[c][x].dev = d /\ hist[c][x].ts >= now - Day}}

\* numeric arithmetic: a / b is rounded to DivScale fractional digits
\* (PostgreSQL keeps at least 16 significant digits), ROUND(x, 2) rounds
\* half away from zero; the operands here are never negative
DivScale == 6
Pow10(n) == IF n = 6 THEN 1000000 ELSE IF n = 4 THEN 10000 ELSE 100
RoundDiv(a, b) == (2 * a + b) \div (2 * b)
NumericDiv(a, b) == RoundDiv(a * Pow10(DivScale), b)

\* mutation of Round2: the digits after the second are cut off
Round2Truncated(x) == x \div Pow10(DivScale - 2)

\* ROUND(x, 2) of a value with DivScale fractional digits, in hundredths
Round2(x) == RoundDiv(x, Pow10(DivScale - 2))

\* CASE WHEN ac > 0 THEN ROUND(dc / ac * 100, 2) ELSE 0 END, in hundredths
Efficiency(dc, ac) == IF ac > 0 THEN Round2(NumericDiv(dc, ac) * 100) ELSE 0

\* getVehiclePerformance(vehicleId): the link lookup, then the two
\* aggregations; queries counts the statements that were run
getVehiclePerformance(vehicleId) ==
    LET linkRows == IF vehicleId \in Devices /\ link[vehicleId] # "none"
                    THEN <<link[vehicleId]>> ELSE <<>>
    IN IF Len(linkRows) = 0
       THEN Reads("performance", vehicleId,
                  [status |-> "NotFound", queries |-> 1])
       ELSE LET meterId == linkRows[1]
                dc == Sum(Last24h("vehicle", vehicleId))
                ac == Sum(Last24h("meter", meterId))
            IN Reads("performance", vehicleId,
                     [status |-> "ok", queries |-> 2, meterId |-> meterId,
                      totalAcConsumed |-> ac, totalDcDelivered |-> dc,
                      efficiencyRatio |-> Efficiency(dc, ac)])

\* the SELECT of mv_vehicle_performance_24h: the link rows joined with the
\* vehicle readings and with the meter readings of the last 24 hours,
\* grouped by link row; a group holds one joined row per pair of readings
MvQuery ==
    {[vehicle_id |-> v, meter_id |-> link[v],
      total_ac_consumed |->
          Cardinality(Last24h("vehicle", v)) * Sum(Last24h("meter", link[v])),
      total_dc_delivered |->
          Cardinality(Last24h("meter", link[v])) * Sum(Last24h("vehicle", v)),
      efficiency_ratio |->
          Efficiency(
              Cardinality(Last24h("meter", link[v])) * Sum(Last24h("vehicle", v)),
              Cardinality(Last24h("vehicle", v)) * Sum(Last24h("meter", link[v])))] :
        v \in {x \in Devices :
                  /\ link[x] # "none"
                  /\ Last24h("vehicle", x) # {}
                  /\ Last24h("meter", link[x]) # {}}}

\* REFRESH MATERIALIZED VIEW CONCURRENTLY mv_vehicle_performance_24h
RefreshMv ==
    /\ mv' = [populated |-> TRUE, rows |-> MvQuery]
    /\ UNCHANGED <<writeVars, link, now, reply>>

\* ---------------------------------------------------------- specification
Init ==
    /\ FLUSH_SIZE \in 1..MaxFlushSize
    /\ buffer = [c \in Classes |-> <<>>]
    /\ flushTimer = FALSE
    /\ phase = "constructed"
    /\ tx = <<>>
    /\ hist = [c \in Classes |-> <<>>]
    /\ cur = [c \in Classes |-> [d \in Devices |-> NoRow]]
    /\ pushed = [c \in Classes |-> <<>>]
    /\ started = 0
    /\ fails = 0
    /\ ackLost = FALSE
    /\ run = [c \in Classes |-> FreshRun]
    /\ drainFailed = [c \in Classes |-> {}]
    /\ unhandled = FALSE
    /\ call = NoCall
    /\ ingestFailed = FALSE
    /\ pushedAtDestroy = [c \in Classes |-> 0]
    /\ link = NoLink
    /\ now = 0
    /\ mv = NoData
    /\ reply = NoReply

Next ==
    \/ onModuleInit
    \/ \E d \in Devices, t \in Timestamps : pushVehicle(d, t)
    \/ \E d \in Devices, t \in Timestamps : pushMeter(d, t)
    \/ Tick
    \/ onModuleDestroy
    \/ \E i \in 1..MaxInFlight : Connect(i)
    \/ \E i \in 1..MaxInFlight : StartTransaction(i)
    \/ \E i \in 1..MaxInFlight : InsertStmt(i)
    \/ \E i \in 1..MaxInFlight : UpsertStmt(i)
    \/ \E i \in 1..MaxInFlight : Commit(i)
    \/ \E i \in 1..MaxInFlight : Rollback(i)
    \/ \E i \in 1..MaxInFlight : Release(i)

Spec == Init /\ [][Next]_vars

\* the service behind TelemetryService.ingest, fed with the well-formed
\* requests of the devices
IngestNext ==
    \/ onModuleInit
    \/ \E m \in DeviceMessages : ingest(m)
    \/ Tick
    \/ onModuleDestroy
    \/ \E i \in 1..MaxInFlight : Connect(i)
    \/ \E i \in 1..MaxInFlight : StartTransaction(i)
    \/ \E i \in 1..MaxInFlight : InsertStmt(i)
    \/ \E i \in 1..MaxInFlight : UpsertStmt(i)
    \/ \E i \in 1..MaxInFlight : Commit(i)
    \/ \E i \in 1..MaxInFlight : Rollback(i)
    \/ \E i \in 1..MaxInFlight : Release(i)

IngestSpec == Init /\ [][IngestNext]_vars

\* TelemetryService.ingest applied to every request, no database step
ValidationNext ==
    \/ onModuleInit
    \/ \E m \in Messages : ingest(m)

ValidationSpec == Init /\ [][ValidationNext]_vars

\* the requests of the vehicles, one of them with an identifier of 65
\* characters, which passes the validation
PoisonMessages ==
    {[type |-> "VEHICLE", payload |-> VehiclePayload(id, Iso(1))] :
        id \in {IdOf(d) : d \in Devices} \cup {Str("dX", IdMaxLen + 1)}}

\* the running service under a timer that keeps firing and a database that
\* answers every call: each awaited step is taken at some time
FairNext ==
    \/ onModuleInit
    \/ \E m \in PoisonMessages : ingest(m)
    \/ TickForever
    \/ \E i \in 1..MaxInFlight : Connect(i)
    \/ \E i \in 1..MaxInFlight : StartTransaction(i)
    \/ \E i \in 1..MaxInFlight : InsertStmt(i)
    \/ \E i \in 1..MaxInFlight : UpsertStmt(i)
    \/ \E i \in 1..MaxInFlight : Commit(i)
    \/ \E i \in 1..MaxInFlight : Rollback(i)
    \/ \E i \in 1..MaxInFlight : Release(i)

FairSpec ==
    /\ Init
    /\ [][FairNext]_vars
    /\ WF_vars(TickForever)
    /\ \A i \in 1..MaxInFlight :
          /\ WF_vars(Connect(i)) /\ WF_vars(StartTransaction(i))
          /\ WF_vars(InsertStmt(i)) /\ WF_vars(UpsertStmt(i))
          /\ WF_vars(Commit(i)) /\ WF_vars(Rollback(i)) /\ WF_vars(Release(i))

\* the rows inserted into the history tables, one recorded_at at a time
PartitionNext == \E c \in Classes, t \in RecordedAts : RouteRow(c, t)

PartitionSpec == Init /\ [][PartitionNext]_vars

\* The reads on a database that earlier runs of the service have filled: the
\* service is running, nothing is buffered and no flush is in flight.
ReadInit ==
    /\ FLUSH_SIZE = MaxFlushSize
    /\ buffer = [c \in Classes |-> <<>>]
    /\ flushTimer = TRUE
    /\ phase = "running"
    /\ tx = <<>>
    /\ \E n \in 0..MaxRows, k \in 0..MaxRows :
          /\ k <= n
          /\ \E v \in Tables("vehicle", k), m \in Tables("meter", n - k) :
                hist = [c \in Classes |-> IF c = "vehicle" THEN v ELSE m]
    /\ cur = [c \in Classes |-> [d \in Devices |-> CurOf(hist[c], d)]]
    /\ pushed = [c \in Classes |-> <<>>]
    /\ started = 0
    /\ fails = 0
    /\ ackLost = FALSE
    /\ run = [c \in Classes |-> FreshRun]
    /\ drainFailed = [c \in Classes |-> {}]
    /\ unhandled = FALSE
    /\ call = NoCall
    /\ ingestFailed = FALSE
    /\ pushedAtDestroy = [c \in Classes |-> 0]
    /\ link \in LinkTables(cur)
    /\ now = 2 * Day
    /\ mv = NoData
    /\ reply = NoReply

ReadNext ==
    \/ \E q \in HistoryQueries : getDeviceHistory(q)
    \/ \E ty \in {"VEHICLE", "METER"}, id \in Devices \cup {"dX"} :
          getLiveStatus(ty, id)
    \/ \E id \in Devices \cup {"dX"} : getVehiclePerformance(id)
    \/ RefreshMv

ReadSpec == ReadInit /\ [][ReadNext]_vars

\* ================================================================= claims
\* flushes of class c in flight
TxOf(c) == {i \in DOMAIN tx : tx[i].class = c}
\* the buffer of class c is quiesced: empty, and no flush of c in flight
Quiesced(c) == buffer[c] = <<>> /\ TxOf(c) = {}
\* occurrences of record id in the batches handed to a repository call that
\* has not committed
InFlight(c, id) ==
    Cardinality(UNION {{<<i, j>> : j \in {k \in DOMAIN tx[i].batch :
                                             tx[i].batch[k].id = id}} :
                       i \in {x \in TxOf(c) : ~tx[x].committed}})
Places(c, id) == Count(buffer[c], id) + InFlight(c, id) + Count(hist[c], id)
MaxOf(S) == CHOOSE m \in S : \A x \in S : x <= m
HistTs(c, d) == {hist[c][k].ts : k \in {j \in DOMAIN hist[c] : hist[c][j].dev = d}}

\* C1: as long as no ingestBatch call has rejected after committing, every
\* pushed record is in exactly one place (the class buffer, one batch in
\* flight, or committed history), and in a quiesced class every pushed record
\* is in history exactly once.
C1_ExactlyOnce ==
    ~ackLost =>
        \A c \in Classes : \A id \in 1..Len(pushed[c]) :
            /\ Places(c, id) = 1
            /\ Quiesced(c) => Count(hist[c], id) = 1

\* C1 witness: two records were pushed, a flush was rejected and re-enqueued,
\* a later flush committed, and the class is quiesced with both in history.
C1_Witness ==
    /\ fails = 1 /\ ~ackLost /\ started = 2
    /\ pushed["meter"] = <<>>
    /\ Len(pushed["vehicle"]) = 2
    /\ Quiesced("vehicle")
    /\ Len(hist["vehicle"]) = 2

\* C2: for every device that has a current row, last_seen_at is the maximum
\* recorded_at over the committed history rows of that device.
C2_LastSeenIsMax ==
    \A c \in Classes : \A d \in Devices :
        cur[c][d] # NoRow =>
            /\ HistTs(c, d) # {}
            /\ cur[c][d].last_seen_at = MaxOf(HistTs(c, d))

\* C2 witness: the batch committed last carried an older reading of a device
\* than the one its current row shows.
C2_Witness ==
    \E c \in Classes :
        /\ Len(hist[c]) = 2
        /\ hist[c][1].dev = hist[c][2].dev
        /\ hist[c][2].ts < hist[c][1].ts
        /\ cur[c][hist[c][2].dev].last_seen_at = hist[c][1].ts

PushedTs(c, d) == {pushed[c][k].ts : k \in {j \in DOMAIN pushed[c] : pushed[c][j].dev = d}}
BatchTs(batch, d) == {batch[k].ts : k \in {j \in DOMAIN batch : batch[j].dev = d}}
\* the batch holds several records of one device
HasDup(batch) == \E j, k \in DOMAIN batch : j # k /\ batch[j].dev = batch[k].dev

\* C3 (as claimed): in a quiesced class that has accepted pushes, history
\* holds one row per pushed reading and the current row of every pushed
\* device shows the greatest pushed timestamp with the values of a reading
\* that carries it.
C3_Claim ==
    \A c \in Classes :
        (Quiesced(c) /\ pushed[c] # <<>>) =>
            /\ \A id \in 1..Len(pushed[c]) : Count(hist[c], id) = 1
            /\ \A d \in DevsOf(pushed[c]) :
                  /\ cur[c][d].last_seen_at = MaxOf(PushedTs(c, d))
                  /\ cur[c][d].rec \in DOMAIN pushed[c]
                  /\ pushed[c][cur[c][d].rec].dev = d
                  /\ pushed[c][cur[c][d].rec].ts = MaxOf(PushedTs(c, d))

\* C4: the tables a reader sees change only by the commit of one whole
\* batch: history gains every row of the batch and the current table is the
\* result of the whole upsert, in the same step; no other step changes them.
C4_Atomic ==
    [][ \/ (hist' = hist /\ cur' = cur)
        \/ \E i \in DOMAIN tx :
             LET c == tx[i].class IN
             /\ tx[i].pc = "commit"
             /\ Upsert(tx[i].batch, cur[c]).ok
             /\ hist' = [hist EXCEPT ![c] = hist[c] \o tx[i].batch]
             /\ cur' = [cur EXCEPT ![c] = Upsert(tx[i].batch, cur[c]).table]
      ]_vars

\* C4 witness: a batch of two records of two devices has committed and both
\* tables show both records.
C4_Witness ==
    \E i \in DOMAIN tx :
        LET c == tx[i].class
            b == tx[i].batch IN
        /\ tx[i].committed
        /\ Len(b) = 2 /\ b[1].dev # b[2].dev
        /\ hist[c] = b
        /\ cur[c][b[1].dev] = RowOf(b[1])
        /\ cur[c][b[2].dev] = RowOf(b[2])

\* C5: an existing current row changes only in the commit of a batch that
\* holds a record of its device with recorded_at strictly greater than the
\* stored last_seen_at, and then it becomes that record; a record whose
\* recorded_at is less than or equal to last_seen_at leaves every field as
\* it was.
C5_StalenessGuard ==
    [][ \A c \in Classes : \A d \in Devices :
          (cur[c][d] # NoRow /\ cur'[c][d] # cur[c][d]) =>
              \E i \in DOMAIN tx :
                  /\ tx[i].class = c /\ tx[i].pc = "commit"
                  /\ \E k \in DOMAIN tx[i].batch :
                        /\ tx[i].batch[k].dev = d
                        /\ tx[i].batch[k].ts > cur[c][d].last_seen_at
                        /\ cur'[c][d] = RowOf(tx[i].batch[k])
      ]_vars

\* C5 witness: a committed batch holds a reading with recorded_at equal to
\* last_seen_at of an older current row of its device, and the row still
\* carries the older reading.
C5_Witness ==
    \E i \in DOMAIN tx :
        LET c == tx[i].class
            b == tx[i].batch IN
        /\ tx[i].committed
        /\ ~ackLost
        /\ \E k \in DOMAIN b :
              /\ cur[c][b[k].dev].last_seen_at = b[k].ts
              /\ cur[c][b[k].dev].rec \notin {b[j].id : j \in DOMAIN b}

\* C6 (as claimed): the upsert of a batch never fails on the records of one
\* device, and once a batch with several records of one device has committed
\* the current row of that device carries at least the greatest recorded_at
\* of the batch.
C6_Claim ==
    \A i \in DOMAIN tx :
        /\ tx[i].err # "cardinality"
        /\ (tx[i].committed /\ HasDup(tx[i].batch)) =>
              \A d \in DevsOf(tx[i].batch) :
                  cur[tx[i].class][d].last_seen_at >= MaxOf(BatchTs(tx[i].batch, d))

\* the record is visible in both tables: it has a history row, and the
\* current row of its device is at least as recent as the record
Persisted(c, r) ==
    /\ Count(hist[c], r.id) >= 1
    /\ cur[c][r.dev] # NoRow
    /\ cur[c][r.dev].last_seen_at >= r.ts
\* the record is in the batch of a flush that still awaits ingestBatch
Awaited(c, r) ==
    \E i \in TxOf(c) : \E k \in DOMAIN tx[i].batch : tx[i].batch[k] = r

\* C7 (as claimed): every accepted record is persisted, or getBufferDepth
\* reports at least one for its class.
C7_Claim ==
    \A c \in Classes : \A k \in DOMAIN pushed[c] :
        Persisted(c, pushed[c][k]) \/ getBufferDepth[c] >= 1

\* C7 (amended): every accepted record is persisted, or is in the batch of a
\* flush of its class that still awaits ingestBatch, or getBufferDepth
\* reports at least one for its class.
C7_Amended ==
    \A c \in Classes : \A k \in DOMAIN pushed[c] :
        \/ Persisted(c, pushed[c][k])
        \/ Awaited(c, pushed[c][k])
        \/ getBufferDepth[c] >= 1

\* C7 witness: an accepted record is in a batch in flight while the depth of
\* its class is zero and nothing of the class is persisted.
C7_Witness ==
    \E c \in Classes :
        /\ pushed[c] # <<>>
        /\ getBufferDepth[c] = 0
        /\ hist[c] = <<>>
        /\ Awaited(c, pushed[c][1])

\* the step is the catch branch of the flush i: the flush leaves the list
\* and the buffer changes
Rejects(i) == i \in DOMAIN tx /\ tx' = Remove(tx, i) /\ buffer' # buffer
\* the step is a timer tick that starts a flush
Ticks == flushTimer /\ flushTimer' /\ started' > started /\ pushed' = pushed
\* records of class c pushed after the first n
PushedSince(c, n) == SubSeq(pushed[c], n + 1, Len(pushed[c]))

\* C8 (as claimed): when ingestBatch rejects, the class buffer becomes the
\* failed batch followed by the records pushed since the swap.
C8_Claim ==
    [][ \A i \in DOMAIN tx :
          Rejects(i) =>
              buffer'[tx[i].class] =
                  tx[i].batch \o PushedSince(tx[i].class, tx[i].swapAt)
      ]_vars

\* C8 (amended): when ingestBatch rejects, the class buffer becomes the
\* failed batch, every record in its original order, followed by what the
\* buffer held at that moment; and a timer tick hands the whole buffer of
\* every non-empty class, the re-enqueued batch first, to the repository.
C8_Amended ==
    [][ /\ \A i \in DOMAIN tx :
             Rejects(i) =>
                 /\ buffer'[tx[i].class] = tx[i].batch \o buffer[tx[i].class]
                 /\ \A c \in Classes \ {tx[i].class} : buffer'[c] = buffer[c]
        /\ Ticks =>
             \A c \in Classes :
                 buffer[c] # <<>> =>
                     /\ buffer'[c] = <<>>
                     /\ \E j \in DOMAIN tx' :
                           /\ j \notin DOMAIN tx
                           /\ tx'[j].class = c
                           /\ tx'[j].pc = "connect"
                           /\ tx'[j].batch = buffer[c]
      ]_vars

\* C8 witness: the only flush started so far was rejected and its batch is
\* back in the buffer in front of a record pushed since the swap.
C8_Witness ==
    \E c \in Classes :
        /\ run[c].tainted /\ started = 1 /\ tx = <<>>
        /\ Len(pushed[c]) = 3
        /\ buffer[c] = pushed[c]

\* C9: the record of a push is afterwards in exactly one place, the fresh
\* buffer or the batch of the flush the push has started, and in no batch
\* that was already in flight; a flush changes the buffer only by its swap
\* and by the re-enqueue after a rejection, never on its success path.
C9_PushLandsOnce ==
    [][ /\ \A c \in Classes :
             pushed'[c] # pushed[c] =>
                 LET r == pushed'[c][Len(pushed'[c])]
                     new == {j \in DOMAIN tx' : j \notin DOMAIN tx}
                 IN /\ \A i \in DOMAIN tx : tx'[i] = tx[i]
                    /\ Count(buffer'[c], r.id)
                         + Cardinality({j \in new : Count(tx'[j].batch, r.id) = 1}) = 1
                    /\ \A j \in new : Count(tx'[j].batch, r.id) = 1
                    /\ \A j \in new : buffer'[c] = <<>>
        /\ \A i \in DOMAIN tx :
             (pushed' = pushed /\ started' = started /\ buffer' # buffer) =>
                 /\ Len(tx') < Len(tx)
                 /\ \E j \in DOMAIN tx :
                       /\ tx' = Remove(tx, j)
                       /\ (tx[j].failed \/ fails' > fails \/ tx[j].pc \in {"connect", "start"})
      ]_vars

\* C9 witness: a record was pushed while a flush of its class was in flight;
\* it is alone in the fresh buffer and not in the batch of that flush.
C9_Witness ==
    \E c \in Classes : \E i \in TxOf(c) :
        /\ ~run[c].tainted
        /\ tx[i].swapAt < Len(pushed[c])
        /\ Len(buffer[c]) = 1
        /\ buffer[c][1] = pushed[c][Len(pushed[c])]
        /\ Count(tx[i].batch, buffer[c][1].id) = 0

\* first n elements of a sequence
Prefix(seq, n) == SubSeq(seq, 1, n)
\* the run of class c has reached FLUSH_SIZE + 1 consecutive pushes
FullRun(c) == ~run[c].tainted /\ Len(run[c].ids) = FLUSH_SIZE + 1
\* exactly one size-triggered flush, of the first FLUSH_SIZE records of the
\* run, and the last record of the run alone in the buffer
OneSizeFlush(c) ==
    /\ run[c].flushes = <<Prefix(run[c].ids, FLUSH_SIZE)>>
    /\ Ids(buffer[c]) = <<run[c].ids[FLUSH_SIZE + 1]>>

\* C10 (as claimed): FLUSH_SIZE + 1 consecutive pushes of one class onto an
\* empty buffer start exactly one size-triggered flush, whose batch is the
\* first FLUSH_SIZE records, and leave the last record in the buffer.
C10_Claim == \A c \in Classes : FullRun(c) => OneSizeFlush(c)

\* C10 (amended): the same for FLUSH_SIZE >= 2; and for every FLUSH_SIZE a
\* push starts at most one flush.
C10_Amended ==
    /\ [](FLUSH_SIZE >= 2 => \A c \in Classes : FullRun(c) => OneSizeFlush(c))
    /\ [][pushed' # pushed => Len(tx') <= Len(tx) + 1]_vars

\* C10 witness: with FLUSH_SIZE = 2, three consecutive pushes of one class
\* have started one size-triggered flush of the first two records and the
\* third record is alone in the buffer.
C10_Witness ==
    \E c \in Classes :
        /\ FLUSH_SIZE = 2
        /\ FullRun(c)
        /\ run[c].flushes = <<<<1, 2>>>>
        /\ Ids(buffer[c]) = <<3>>

\* C11 (as claimed): a timer tick hands the whole buffer of every non-empty
\* class to the repository, and with a healthy database (no awaited call
\* rejected by the database connection) a batch handed over by a tick is
\* never rolled back, so that its records become persisted by that flush.
C11_Claim ==
    /\ [][ Ticks =>
             \A c \in Classes :
                 buffer[c] # <<>> =>
                     /\ buffer'[c] = <<>>
                     /\ \E j \in DOMAIN tx' :
                           /\ j \notin DOMAIN tx
                           /\ tx'[j].trigger = "timer"
                           /\ tx'[j].batch = buffer[c]
         ]_vars
    /\ [](\A i \in DOMAIN tx :
             (fails = 0 /\ tx[i].trigger = "timer") =>
                 (tx[i].err = "none" /\ ~tx[i].failed))

\* the step is the call of onModuleDestroy
Destroys == phase = "running" /\ phase' = "destroying"
\* flushes that are in flight after the step and were not before it
NewFlushes == {j \in DOMAIN tx' : Len(tx') > Len(tx) /\ j > Len(tx)}
\* ids of the records of a batch
IdSet(batch) == {batch[k].id : k \in DOMAIN batch}
\* onModuleDestroy stops the timer and starts one drain flush per non-empty
\* class and none for an empty one; once it has been called the timer stays
\* stopped, no timer-triggered and no further drain flush begins, and a
\* drain flush that settles, resolved or rejected, leaves no rejection behind
ShutdownOrder ==
    /\ [](phase = "destroying" => ~flushTimer)
    /\ [][ Destroys =>
             /\ ~flushTimer'
             /\ \A j \in NewFlushes : tx'[j].trigger = "drain"
             /\ \A c \in Classes :
                   /\ buffer'[c] = <<>>
                   /\ Cardinality({j \in NewFlushes : tx'[j].class = c})
                        = IF buffer[c] = <<>> THEN 0 ELSE 1
                   /\ \A j \in NewFlushes :
                         tx'[j].class = c => tx'[j].batch = buffer[c]
         ]_vars
    /\ [][ phase = "destroying" =>
             /\ \A j \in NewFlushes : tx'[j].trigger = "size"
             /\ \A i \in DOMAIN tx :
                   (tx[i].trigger = "drain" /\ tx' = Remove(tx, i)) => ~unhandled'
         ]_vars

C13_NoSurface ==
    /\ [](~unhandled)
    /\ [][ \A i \in DOMAIN tx :
             (tx' = Remove(tx, i) /\ (tx[i].failed \/ fails' > fails)) =>
                 /\ Rejects(i)
                 /\ flushTimer' = flushTimer /\ phase' = phase
                 /\ pushed' = pushed /\ call' = call
                 /\ hist' = hist /\ cur' = cur
                 /\ \A c \in Classes \ {tx[i].class} : buffer'[c] = buffer[c]
         ]_vars

\* C13 witness: the first flush was rejected; the timer is still set, and a
\* push accepted afterwards has started a size-triggered flush that holds the
\* re-enqueued record and the new one.
C13_Witness ==
    \E c \in Classes : \E i \in TxOf(c) :
        /\ fails = 1 /\ ~unhandled /\ started = 2
        /\ flushTimer /\ phase = "running"
        /\ Len(pushed[c]) = 2
        /\ tx[i].trigger = "size"
        /\ tx[i].batch = pushed[c]
        /\ tx[i].swapAt = 2

\* C14: a transaction in which the history insert, the upsert or the commit
\* has failed is never committed: the failure leads to the rollback, no step
\* of the failed call changes what a reader sees in either table, and when
\* the call settles it is a rejection that puts the batch back in the buffer.
C14_RollbackRejects ==
    /\ [](\A i \in DOMAIN tx :
             tx[i].err # "none" =>
                 /\ ~tx[i].committed
                 /\ tx[i].pc \in {"rollback", "release"}
                 /\ tx[i].pc = "release" =>
                       (tx[i].failed /\ ~tx[i].pend /\ tx[i].writes = NoWrites
                        /\ tx[i].locks = {}))
    /\ [][ \A i \in DOMAIN tx :
             /\ (Len(tx') = Len(tx) /\ tx'[i] # tx[i]
                 /\ (tx[i].err # "none" \/ tx'[i].err # "none")) =>
                    /\ hist' = hist /\ cur' = cur
                    /\ tx'[i].pc = (IF tx[i].pc = "rollback" THEN "release"
                                    ELSE "rollback")
                    /\ tx[i].pc \in {"insert", "upsert", "commit", "rollback"}
             /\ (tx' = Remove(tx, i) /\ tx[i].err # "none") =>
                    /\ hist' = hist /\ cur' = cur
                    /\ buffer'[tx[i].class] = tx[i].batch \o buffer[tx[i].class]
         ]_vars

\* C14 witness: a statement or the commit of a batch of two records, which
\* the upsert accepts, has failed and the transaction is rolled back; neither
\* table shows anything of the batch.
C14_Witness ==
    \E i \in DOMAIN tx :
        /\ tx[i].failed /\ tx[i].err = "db" /\ fails = 1
        /\ Len(tx[i].batch) = 2
        /\ Upsert(tx[i].batch, cur[tx[i].class]).ok
        /\ hist[tx[i].class] = <<>>
        /\ \A d \in Devices : cur[tx[i].class][d] = NoRow

C16_Claim == \A i \in DOMAIN tx : Len(tx[i].batch) <= FLUSH_SIZE

\* C17: a flush of an empty class buffer creates no query runner for that
\* class and leaves the buffer empty; ingestBatch called with an empty list
\* leaves the in-flight database work as it is; hence no query runner ever
\* holds an empty batch.
C17_EmptyFlush ==
    /\ [](\A i \in DOMAIN tx : tx[i].batch # <<>>)
    /\ [](\A c \in Classes :
             ingestBatch(tx, c, <<>>, "timer", Len(pushed[c])) = tx)
    /\ [][ (Ticks \/ Destroys) =>
             \A c \in Classes :
                 buffer[c] = <<>> =>
                     /\ buffer'[c] = <<>>
                     /\ \A j \in NewFlushes : tx'[j].class # c
         ]_vars

\* C17 witness: the drain has flushed both classes while one of them had an
\* empty buffer: the only flush in flight is the one of the other class.
C17_Witness ==
    \E c \in Classes : \E o \in Classes \ {c} :
        /\ phase = "destroying" /\ started = 1
        /\ pushed[o] = <<>> /\ buffer[o] = <<>> /\ TxOf(o) = {}
        /\ \E i \in TxOf(c) : tx[i].trigger = "drain"

\* the device identifier and the instant a request carries for its class
DtoDev(m) == IF m.type = "VEHICLE" THEN m.payload.vehicleId.s ELSE m.payload.meterId.s
DtoTs(m) == m.payload.timestamp.v
DtoClass(m) == IF m.type = "VEHICLE" THEN "vehicle" ELSE "meter"
\* the last record pushed for class c
LastPushed(c) == pushed[c][Len(pushed[c])]

\* C18: the step that takes a well-formed request puts its record into the
\* buffer of its class (or into the batch of the flush the push starts) and
\* settles the call with accepted in that same step, whatever the state of
\* the database work: no flush in flight advances or settles in the step,
\* a flush the push starts has not yet connected, and the tables are
\* untouched.
C18_AcceptedBeforePersisted ==
    [][ pushed' # pushed =>
          LET c == DtoClass(call'.dto)
              r == pushed'[c][Len(pushed'[c])] IN
          /\ call'.result = "accepted"
          /\ pushed'[c] = Append(pushed[c], r)
          /\ r.dev = DtoDev(call'.dto) /\ r.ts = DtoTs(call'.dto)
          /\ \A i \in DOMAIN tx : tx'[i] = tx[i]
          /\ Count(buffer'[c], r.id)
               + Cardinality({j \in NewFlushes : Count(tx'[j].batch, r.id) = 1}) = 1
          /\ \A j \in NewFlushes : tx'[j].pc = "connect" /\ ~tx'[j].committed
          /\ hist' = hist /\ cur' = cur
      ]_vars

\* C18 witness: an earlier flush was rejected and nothing is persisted; the
\* last request was accepted, and the flush its push has started, which
\* holds its record, still waits for the connection.
C18_Witness ==
    \E i \in DOMAIN tx :
        LET c == tx[i].class IN
        /\ fails = 1 /\ started = 2 /\ hist[c] = <<>>
        /\ call.result = "accepted" /\ DtoClass(call.dto) = c
        /\ tx[i].pc = "connect" /\ tx[i].trigger = "size"
        /\ Len(tx[i].batch) = 2
        /\ tx[i].batch[2] = LastPushed(c)
        /\ LastPushed(c).dev = DtoDev(call.dto)
        /\ LastPushed(c).ts = DtoTs(call.dto)

\* the step of a call of ingest that appends record r to the buffer of class
\* c (or hands it to the flush it starts) and touches nothing of class o
Dispatched(c, o) ==
    LET r == pushed'[c][Len(pushed'[c])] IN
    /\ call'.result = "accepted"
    /\ Len(pushed'[c]) = Len(pushed[c]) + 1
    /\ pushed'[c] = Append(pushed[c], r)
    /\ r.ts = DtoTs(call'.dto)
    /\ \/ buffer'[c] = Append(buffer[c], r) /\ NewFlushes = {}
       \/ /\ buffer'[c] = <<>>
          /\ Cardinality(NewFlushes) = 1
          /\ \A j \in NewFlushes :
                tx'[j].class = c /\ tx'[j].batch = Append(buffer[c], r)
    /\ pushed'[o] = pushed[o] /\ buffer'[o] = buffer[o]

\* C19: a call of ingest with tag VEHICLE and a payload without validation
\* errors appends one record to the vehicle buffer and leaves the meter
\* buffer alone, and symmetrically for METER; every other call (another tag,
\* or validation errors) settles with a BadRequest and changes no buffer and
\* starts no flush.
C19_Dispatch ==
    [][ (call' # call \/ pushed' # pushed) =>
          LET m == call'.dto IN
          IF m.type = "VEHICLE" /\ validateVehicle(m.payload) = {}
          THEN Dispatched("vehicle", "meter")
               /\ pushed'["vehicle"][Len(pushed'["vehicle"])].dev = m.payload.vehicleId.s
          ELSE IF m.type = "METER" /\ validateMeter(m.payload) = {}
          THEN Dispatched("meter", "vehicle")
               /\ pushed'["meter"][Len(pushed'["meter"])].dev = m.payload.meterId.s
          ELSE /\ call'.result = "BadRequest"
               /\ buffer' = buffer /\ pushed' = pushed /\ tx' = tx
      ]_vars

\* C19 witness: a well-formed vehicle payload sent with the tag METER was
\* refused while the vehicle buffer held a record; the meter class is
\* untouched.
C19_Witness ==
    /\ call.result = "BadRequest"
    /\ call.dto.type = "METER"
    /\ validateVehicle(call.dto.payload) = {}
    /\ Len(buffer["vehicle"]) = 1
    /\ pushed["meter"] = <<>> /\ buffer["meter"] = <<>>

\* a vehicle payload is valid as claimed
ClaimedValidVehicle(p) ==
    /\ p.vehicleId.t = "string"
    /\ p.vehicleId.len >= 1 /\ p.vehicleId.len <= IdMaxLen
    /\ p.soc.t = "number" /\ p.soc.v >= 0 /\ p.soc.v <= SocMax
    /\ p.kwhDeliveredDc.t = "number" /\ p.kwhDeliveredDc.v >= 0
    /\ p.batteryTemp.t = "number"
    /\ p.timestamp.t = "string" /\ p.timestamp.s = "iso"
\* a meter payload is valid as claimed
ClaimedValidMeter(p) ==
    /\ p.meterId.t = "string"
    /\ p.meterId.len >= 1 /\ p.meterId.len <= IdMaxLen
    /\ p.kwhConsumedAc.t = "number" /\ p.kwhConsumedAc.v >= 0
    /\ p.voltage.t = "number" /\ p.voltage.v >= 0
    /\ p.timestamp.t = "string" /\ p.timestamp.s = "iso"

\* C20 (as claimed): a call with the tag VEHICLE is accepted if and only if
\* its payload is a valid vehicle payload as claimed, identifier of at most
\* 64 characters included; and likewise for METER.
C20_Claim ==
    /\ (call.result # "none" /\ call.dto.type = "VEHICLE") =>
          (call.result = "accepted" <=> ClaimedValidVehicle(call.dto.payload))
    /\ (call.result # "none" /\ call.dto.type = "METER") =>
          (call.result = "accepted" <=> ClaimedValidMeter(call.dto.payload))

\* the properties the DTO of a variant declares
VehicleFields == {"vehicleId", "soc", "kwhDeliveredDc", "batteryTemp", "timestamp"}
MeterFields == {"meterId", "kwhConsumedAc", "voltage", "timestamp"}
\* the fields a request carries that the schema of its variant does not define
UnknownFields(m) ==
    {f \in DOMAIN m.payload : m.payload[f].t # "absent"}
        \ (IF m.type = "VEHICLE" THEN VehicleFields ELSE MeterFields)

\* C21 (as claimed): a call with the tag VEHICLE or METER whose payload
\* carries a field that the schema of the variant does not define ends with
\* a validation error, so it is never accepted and pushed.
C21_Claim ==
    (/\ call.result # "none"
     /\ call.dto.type \in {"VEHICLE", "METER"}
     /\ UnknownFields(call.dto) # {}) => call.result = "BadRequest"

\* the flushes of class c in flight, oldest first
ClassTx(t, c) == SelectSeq(t, LAMBDA x : x.class = c)
\* the next step of flush j inside ingestBatch
RepositoryStep(j) ==
    \/ Connect(j) \/ StartTransaction(j) \/ InsertStmt(j) \/ UpsertStmt(j)
    \/ Commit(j) \/ Rollback(j) \/ Release(j)
\* row locks held by the other flushes of the class of flush j
OwnClassLocks(j) ==
    UNION {tx[o].locks : o \in {x \in DOMAIN tx : x # j /\ tx[x].class = tx[j].class}}

\* C22: the classes are independent.  A step of a flush inside ingestBatch or
\* its catch branch (commit, failure, rollback, re-enqueue) changes the
\* buffer, the history table and the current table of one class only and
\* leaves the flushes of the other class as they are; and the next step of a
\* flush can always be taken unless a flush of its own class holds a row
\* lock it needs, whatever the flushes of the other class have done (failed,
\* committed, or still holding locks), so either class may commit first.
C22_Independent ==
    /\ [][(tx' # tx /\ Len(tx') <= Len(tx)) =>
            \E c \in Classes : \A o \in Classes \ {c} :
                /\ ClassTx(tx', o) = ClassTx(tx, o)
                /\ buffer'[o] = buffer[o]
                /\ hist'[o] = hist[o]
                /\ cur'[o] = cur[o]]_vars
    /\ [](\A j \in DOMAIN tx :
            (DevsOf(tx[j].batch) \cap OwnClassLocks(j) = {}) =>
                ENABLED RepositoryStep(j))
\* both classes flushed by the timer, readings of the same device in both
\* batches: the vehicle flush has failed and been rolled back, the meter
\* flush has committed after it
C22_Witness ==
    /\ Len(tx) = 2
    /\ tx[1].class = "vehicle" /\ tx[1].trigger = "timer" /\ tx[1].failed
    /\ tx[2].class = "meter" /\ tx[2].trigger = "timer" /\ tx[2].committed
    /\ DevsOf(tx[1].batch) \cap DevsOf(tx[2].batch) # {}
    /\ hist["vehicle"] = <<>> /\ hist["meter"] # <<>>

\* the identifiers that have a row in the current table of class c
CurIds(c) == {d \in Devices : cur[c][d] # NoRow}

\* C23: a current table holds rows only for identifiers that occur in a
\* committed record (a row of the history table), at most one per identifier,
\* so it never holds more rows than there are distinct identifiers ingested;
\* and no step removes a current row.
C23_CurrentRows ==
    /\ [](\A c \in Classes :
            /\ CurIds(c) \subseteq DevsOf(hist[c])
            /\ Cardinality(CurIds(c)) <= Cardinality(DevsOf(hist[c]))
            /\ Cardinality(CurIds(c)) <= Cardinality(DevsOf(pushed[c])))
    /\ [][\A c \in Classes : \A d \in Devices :
            cur[c][d] # NoRow => cur'[c][d] # NoRow]_vars
\* three committed vehicle readings of two devices: one row per device, one
\* of them created by a first reading and met again by a later one
C23_Witness ==
    /\ Len(hist["vehicle"]) = 3
    /\ CurIds("vehicle") = Devices
    /\ tx = <<>>

\* the calendar date of an instant, counted forward from 2025-12-01
RECURSIVE DateFrom(_, _, _)
DateFrom(y, m, days) ==
    IF days < DaysIn(y, m) THEN [y |-> y, m |-> m, d |-> days + 1]
    ELSE IF m = 12 THEN DateFrom(y + 1, 1, days - DaysIn(y, m))
    ELSE DateFrom(y, m + 1, days - DaysIn(y, m))
DateOf(t) == DateFrom(2025, 12, t \div 2)
\* the instant is the midnight that begins a month
FirstOfMonth(t) == t % 2 = 0 /\ DateOf(t).d = 1

\* C24: the monthly partitions of each history table have half-open bounds
\* from the first of a month to the first of the next month, each beginning
\* where the one before ends; and a row is stored in exactly one partition:
\* the one named after the month of its recorded_at when that month has a
\* partition (the months of 2026), the default partition otherwise.
C24_Partitions ==
    /\ \A c \in Classes : \A k \in DOMAIN Partitions(c) :
          LET p == Partitions(c)[k] IN
          /\ FirstOfMonth(p.from) /\ FirstOfMonth(p.to)
          /\ <<DateOf(p.from).y, DateOf(p.from).m>> = p.name
          /\ DateOf(p.to - 1).m = DateOf(p.from).m
          /\ k > 1 => p.from = Partitions(c)[k - 1].to
    /\ reply.op = "route" =>
          LET at == DateOf(reply.req.recorded_at)
              months == {Partitions(reply.req.class)[k].name :
                            k \in DOMAIN Partitions(reply.req.class)}
          IN reply.res = IF <<at.y, at.m>> \in months
                         THEN {<<at.y, at.m>>} ELSE {Default}
\* the second half of the last day of June 2026 is stored in the partition
\* of June
C24_Witness ==
    /\ reply.op = "route"
    /\ reply.req.recorded_at = Date(2026, 7, 1) - 1
    /\ reply.res = {<<2026, 6>>}

\* the history table a history request names
QueryClass(q) == IF q.deviceType = "VEHICLE" THEN "vehicle" ELSE "meter"
\* the limit a history request asks for
QueryLimit(q) == IF q.limit = Absent THEN DefaultLimit ELSE q.limit.v

\* C25: a history request without from or without to, or with a limit that
\* is not a whole number from 1 to 10000, is rejected; an answered request
\* returns only rows of the history table of the requested device with
\* from <= recorded_at < to, none of them twice, newest first, and at most
\* limit of them (1000 when no limit is given); from = to gives no row.
C25_HistoryRead ==
    reply.op = "history" =>
        LET q == reply.req
            rows == reply.res.rows
        IN /\ (q.from = Absent \/ q.to = Absent) => reply.res.status = "BadRequest"
           /\ (q.limit # Absent /\ ~(q.limit.s = "numeral" /\ q.limit.v >= 1
                                       /\ q.limit.v <= MaxLimit))
                 => reply.res.status = "BadRequest"
           /\ reply.res.status = "ok" =>
                 /\ \A k \in DOMAIN rows :
                       /\ \E x \in DOMAIN hist[QueryClass(q)] :
                             hist[QueryClass(q)][x] = rows[k]
                       /\ rows[k].dev = q.deviceId.s
                       /\ q.from.v <= rows[k].ts /\ rows[k].ts < q.to.v
                 /\ \A j, k \in DOMAIN rows : j < k =>
                       (rows[j] # rows[k] /\ rows[j].ts >= rows[k].ts)
                 /\ Len(rows) <= QueryLimit(q)
                 /\ q.from.v = q.to.v => rows = <<>>
\* two readings of the device lie in the window and the limit is 1: the
\* answer is the newer one alone
C25_Witness ==
    /\ reply.op = "history" /\ reply.res.status = "ok"
    /\ reply.req.limit = Numeral(1)
    /\ Len(reply.res.rows) = 1 /\ reply.res.rows[1].ts = 2
    /\ \E x \in DOMAIN hist["vehicle"] :
          hist["vehicle"][x].dev = "d1" /\ hist["vehicle"][x].ts = 1

\* the readings of the device a history request names that lie in its window
Matching(q) ==
    {x \in DOMAIN hist[QueryClass(q)] :
        /\ hist[QueryClass(q)][x].dev = q.deviceId.s
        /\ q.from.v <= hist[QueryClass(q)][x].ts
        /\ hist[QueryClass(q)][x].ts < q.to.v}

\* C26: the performance read of a vehicle without a link row ends with
\* not-found after the link lookup alone (no aggregation is run); the
\* live-status read of an identifier without a current row returns null and
\* no error; the history read of a well-formed request whose device has no
\* reading in the window returns the empty list and no error, whether the
\* device is known or not.
C26_NotFound ==
    /\ (reply.op = "performance"
           /\ (reply.req \notin Devices \/ link[reply.req] = "none"))
          => (reply.res.status = "NotFound" /\ reply.res.queries = 1)
    /\ (reply.op = "live"
           /\ (reply.req.deviceId \notin Devices
                  \/ cur[IF reply.req.deviceType = "VEHICLE"
                         THEN "vehicle" ELSE "meter"][reply.req.deviceId] = NoRow))
          => (reply.res.status = "ok" /\ reply.res.row = "null")
    /\ (reply.op = "history"
           /\ reply.req.deviceType \in {"VEHICLE", "METER"}
           /\ reply.req.deviceId.t = "string"
           /\ reply.req.from.s = "iso" /\ reply.req.to.s = "iso"
           /\ reply.req.limit = Absent
           /\ Matching(reply.req) = {})
          => reply.res = [status |-> "ok", rows |-> <<>>]
\* the live status of a vehicle that has no current row, while another
\* vehicle has one: null
C26_Witness ==
    /\ reply.op = "live"
    /\ reply.req = [deviceType |-> "VEHICLE", deviceId |-> "d2"]
    /\ cur["vehicle"]["d2"] = NoRow /\ cur["vehicle"]["d1"] # NoRow
    /\ reply.res.row = "null"

\* the kWh of the readings of device d in table h that are not older than
\* 24 hours, added up row by row
RECURSIVE Total24h(_, _, _)
Total24h(h, d, k) ==
    IF k = 0 THEN 0
    ELSE Total24h(h, d, k - 1)
           + (IF h[k].dev = d /\ h[k].ts >= now - Day THEN h[k].kwh ELSE 0)

\* C27: the efficiency ratio that the performance read returns for a linked
\* vehicle is 100 times the 24h total delivered to the vehicle divided by
\* the 24h total consumed by its meter, rounded to two fractional digits
\* (given here in hundredths, a half rounded up), and 0 when the consumed
\* total is zero, also when the meter has no reading in the window.
C27_Efficiency ==
    (reply.op = "performance" /\ reply.res.status = "ok") =>
        LET dc == Total24h(hist["vehicle"], reply.req, Len(hist["vehicle"]))
            ac == Total24h(hist["meter"], link[reply.req], Len(hist["meter"]))
        IN /\ reply.res.totalDcDelivered = dc
           /\ reply.res.totalAcConsumed = ac
           /\ reply.res.efficiencyRatio =
                 IF ac = 0 THEN 0 ELSE (2 * 100 * 100 * dc + ac) \div (2 * ac)
\* 3 kWh delivered for 96 kWh consumed: 3.125 percent, returned as 3.13
C27_Witness ==
    /\ reply.op = "performance" /\ reply.res.status = "ok"
    /\ reply.res.totalDcDelivered = 3 /\ reply.res.totalAcConsumed = 96
    /\ reply.res.efficiencyRatio = 313

\* C28 (as claimed): once the materialized view has been refreshed it holds,
\* for every linked vehicle, exactly one row, and that row carries the totals
\* and the efficiency ratio that getVehiclePerformance computes for the
\* vehicle from the same link rows and readings.
C28_Claim ==
    mv.populated =>
        \A v \in {x \in Devices : link[x] # "none"} :
            LET dc == Sum(Last24h("vehicle", v))
                ac == Sum(Last24h("meter", link[v]))
            IN /\ Cardinality({r \in mv.rows : r.vehicle_id = v}) = 1
               /\ \A r \in mv.rows : r.vehicle_id = v =>
                     /\ r.total_dc_delivered = dc
                     /\ r.total_ac_consumed = ac
                     /\ r.efficiency_ratio = Efficiency(dc, ac)

\* C30 (as claimed): ingestBatch rejects only when nothing of the batch was
\* committed, so the batch that a catch branch puts back into the buffer is
\* never one whose transaction has committed.
C30_Claim ==
    [][\A i \in DOMAIN tx : Rejects(i) => ~tx[i].committed]_vars

\* the database rejects the record on every attempt
Poison(r) == ~Fits(<<r>>)

\* C29 (as claimed): under a timer that keeps firing, a vehicle record that
\* was pushed after a record the database rejects every time (an identifier
\* of 65 characters) is eventually persisted.
C29_Claim ==
    \A k \in 1..MaxPush :
        (/\ k \in DOMAIN pushed["vehicle"]
         /\ ~Poison(pushed["vehicle"][k])
         /\ \E j \in 1..(k - 1) : Poison(pushed["vehicle"][j]))
          ~> (k \in DOMAIN pushed["vehicle"] /\ Persisted("vehicle", pushed["vehicle"][k]))

\* onModuleDestroy has resolved: it was called and the drain flushes that its
\* flushAll awaits have settled
DestroyResolved ==
    phase = "destroying" /\ \A i \in DOMAIN tx : tx[i].trigger # "drain"
\* no ingestBatch call has rejected and none in flight has had a rejection
NoFailure ==
    ~ingestFailed /\ \A i \in DOMAIN tx : tx[i].pc # "rollback" /\ ~tx[i].failed
\* the records of class c pushed before onModuleDestroy was called
PushedBeforeDestroy(c) == {pushed[c][k] : k \in 1..pushedAtDestroy[c]}

\* C31 (as claimed): once onModuleDestroy has resolved and no ingestBatch
\* call has failed, every record pushed before onModuleDestroy was called is
\* committed, the records of a flush already in flight at teardown included.
C31_Claim ==
    (DestroyResolved /\ NoFailure) =>
        \A c \in Classes : \A r \in PushedBeforeDestroy(c) : Persisted(c, r)

\* a push of class c is the step
Pushes(c) == pushed'[c] # pushed[c]
\* the step starts a flush of class c with this batch
StartsFlush(c, batch) ==
    \E j \in NewFlushes : tx'[j].class = c /\ tx'[j].batch = batch

\* C32 (as claimed): at most one ingestBatch call per device class is in
\* flight at any time.
C32_Claim == \A c \in Classes : Cardinality(TxOf(c)) <= 1

\* C32 (amended): a timer tick starts a flush of every class whose buffer is
\* not empty, and a push that reaches the size trigger starts a flush of its
\* class, whether or not earlier flushes of the class still await the
\* repository; the batches of the flushes of a class that are in flight at
\* the same time have no record in common.
C32_Amended ==
    /\ [](\A c \in Classes : \A i, j \in TxOf(c) :
             i # j => IdSet(tx[i].batch) \cap IdSet(tx[j].batch) = {})
    /\ [][ \A c \in Classes :
             /\ (Ticks /\ buffer[c] # <<>>) => StartsFlush(c, buffer[c])
             /\ (Pushes(c) /\ Len(buffer[c]) + 1 >= FLUSH_SIZE) =>
                   StartsFlush(c, Append(buffer[c], pushed'[c][Len(pushed'[c])]))
         ]_vars

\* C32 witness: two flushes of one class are in flight; the later one was
\* started by a tick or by a size trigger while the earlier one, which has
\* not failed, still awaits the repository.
C32_Witness ==
    \E c \in Classes : \E i, j \in TxOf(c) :
        /\ i < j
        /\ tx[j].trigger \in {"timer", "size"}
        /\ tx[j].pc = "connect"
        /\ tx[i].pc \in {"connect", "start", "insert", "upsert", "commit"}
        /\ fails = 0

\* C33: for FLUSH_SIZE >= 1, right after a push of a class the depth of that
\* class's buffer is below FLUSH_SIZE, whatever was re-enqueued before; so
\* is it after a timer tick.  A step that leaves a changed buffer of
\* FLUSH_SIZE or more records is the re-enqueue of a rejected flush of the
\* class; hence such a depth is seen only from a re-enqueue to the next push
\* or tick.
C33_PushDepth ==
    /\ [](FLUSH_SIZE >= 1)
    /\ [][ \A c \in Classes :
             /\ (Pushes(c) \/ Ticks) => Len(buffer'[c]) < FLUSH_SIZE
             /\ (Len(buffer'[c]) >= FLUSH_SIZE /\ buffer'[c] # buffer[c]) =>
                   \E i \in TxOf(c) : Rejects(i)
         ]_vars

\* C33 witness: a rejected flush was re-enqueued and left FLUSH_SIZE or more
\* records in the buffer; the next push has handed all of them, with its own
\* record, to a size-triggered flush and left the buffer empty.
C33_Witness ==
    \E i \in DOMAIN tx :
        /\ ingestFailed
        /\ tx[i].trigger = "size" /\ tx[i].pc = "connect"
        /\ Len(tx[i].batch) > FLUSH_SIZE
        /\ tx[i].batch[Len(tx[i].batch)] = LastPushed(tx[i].class)
        /\ buffer[tx[i].class] = <<>>

\* ingestBatch of flush i settles in the step
Settles(i) == i \in DOMAIN tx /\ tx' = Remove(tx, i)
\* connect() of the query runner of the flush has resolved
Connected(t) == t.pc # "connect"

\* C34 (as claimed): a query runner that ingestBatch has created and
\* connected is released before ingestBatch settles, on the success path and
\* on every failure path: a flush with a connected runner settles only out
\* of the await of release().
C34_Claim ==
    [][ \A i \in DOMAIN tx :
          (Settles(i) /\ Connected(tx[i])) => tx[i].pc = "release" ]_vars
====
